---- MODULE Spec2Model ----
(***************************************************************************)
(* A model of three parts of iotex-core:                                   *)
(*   - state/state.go: the account State, AddBalance, SubBalance, clone,   *)
(*     stateToBytes and bytesToState                                       *)
(*   - server/itx/server.go: NewServer, Server.Start, Server.Stop and the  *)
(*     bcService handlers that forward network messages to the subsystems  *)
(*   - the action pool, the block syncer and the dispatcher's subscriber   *)
(*     table; their code is in other packages, so they are modelled from   *)
(*     spec.md                                                             *)
(* Each part has its own specification over the module's variables; the    *)
(* variables of the other parts stay at their initial values.              *)
(***************************************************************************)
EXTENDS Integers, Sequences, FiniteSets, TLC

VARIABLES
    heap,       \* the big.Int cells: cell -> value
    arrs,       \* the backing arrays of byte slices: array -> bytes
    accounts,   \* name -> State ("orig" always, "cpy" once clone() ran)
    ret,        \* the last call on an account and what it returned
    negSeen,    \* whether some call so far was given a negative amount
    prevRet,    \* the call on an account before the last one
    wire,       \* the last output of stateToBytes
    decoded,    \* the value of the State bytesToState returned last
    srvLog,     \* the stage operations the last Start/Stop invoked, in order
    srvRet,     \* the last Start/Stop call and the error it returned
    running,    \* the stages started and not stopped since
    boot,       \* what NewServer was given, the steps it took and its outcome
    subs,       \* the dispatcher's subscribers: chain id and handler set
    subRet,     \* the last AddSubscriber call and the error it returned
    chain,      \* the committed state: sender -> on-chain nonce and balance
    pending,    \* the action pool's PendingSet
    hRet,       \* the last pool operation: message, pool calls, error, evicted
    inflight,   \* worker -> the admission it is in the middle of
    cursor,     \* BlockSync's SyncCursor: height, buffer, state, requested
    applied,    \* the heights BlockSync applied, in order
    arrivals,   \* the blocks handed to the handlers so far: path and height
    startHeight, \* the local height when the block syncer was created
    fwd         \* the last forwarding handler: arguments, calls made, result

stateVars == <<heap, arrs, accounts, ret, negSeen, prevRet, wire, decoded>>
serverVars == <<srvLog, srvRet, running, boot, subs, subRet>>
poolVars == <<chain, pending, hRet, inflight>>
syncVars == <<cursor, applied, arrivals, startHeight, fwd>>

vars == <<heap, arrs, accounts, ret, negSeen, prevRet, wire, decoded,
          srvLog, srvRet, running, boot, subs, subRet,
          chain, pending, hRet, inflight, cursor, applied, arrivals,
          startHeight, fwd>>

(***************************************************************************)
(* state/state.go                                                          *)
(***************************************************************************)
MaxBalance == 3
MaxAmount == 2
MaxWeight == 1

NumCells == 4
NumArrs == 2
Cells == 1..NumCells
Arrs == 1..NumArrs
NilRef == 0

ErrNone == "nil"
ErrNotEnoughBalance == "ErrNotEnoughBalance"

Amounts == (0 - MaxAmount)..MaxAmount
Hashes == {"zero", "h1"}
Addresses == {"", "io1"}
ByteSeqs == {<<>>, <<7>>}
VoterMaps == {{<<"io2", 1>>}}

\* The fields of State; Balance and VotingWeight are *big.Int (a cell),
\* CodeHash is a slice (NilRef or a backing array), Voters is a map
\* (nil or a set of address/weight entries).
State(nonce, bal, root, code, cand, vw, votee, voters) ==
    [Nonce |-> nonce, Balance |-> bal, Root |-> root, CodeHash |-> code,
     IsCandidate |-> cand, VotingWeight |-> vw, Votee |-> votee,
     Voters |-> voters]

NilMap == [isNil |-> TRUE, entries |-> {}]
MakeMap(es) == [isNil |-> FALSE, entries |-> es]

\* The value of a State: every pointer followed.
Val(h, a, st) ==
    [Nonce |-> st.Nonce, Balance |-> h[st.Balance], Root |-> st.Root,
     CodeHash |-> IF st.CodeHash = NilRef
                    THEN [isNil |-> TRUE, bytes |-> <<>>]
                    ELSE [isNil |-> FALSE, bytes |-> a[st.CodeHash]],
     IsCandidate |-> st.IsCandidate, VotingWeight |-> h[st.VotingWeight],
     Votee |-> st.Votee, Voters |-> st.Voters]

UsedCells(accs) ==
    UNION {{accs[n].Balance, accs[n].VotingWeight} : n \in DOMAIN accs}
UsedArrs(accs) == {accs[n].CodeHash : n \in DOMAIN accs} \ {NilRef}

\* new(big.Int) and make([]byte, n): storage no live State refers to.
NewCell(used) == CHOOSE c \in Cells : c \notin used
NewArr(used) == CHOOSE x \in Arrs : x \notin used

\* Storage that nothing refers to any more is collected (reset).
Collect(h, accs) == [c \in Cells |-> IF c \in UsedCells(accs) THEN h[c] ELSE 0]
CollectArrs(a, accs) ==
    [x \in Arrs |-> IF x \in UsedArrs(accs) THEN a[x] ELSE <<>>]

\* State.AddBalance: st.Balance.Add(st.Balance, amount); return nil
AddBalance(h, st, amount) ==
    [heap |-> [h EXCEPT ![st.Balance] = h[st.Balance] + amount],
     err |-> ErrNone]

\* A debit without the funds check.
SubBalanceUnchecked(h, st, amount) ==
    [heap |-> [h EXCEPT ![st.Balance] = h[st.Balance] - amount],
     err |-> ErrNone]

\* A debit that clamps at zero instead of rejecting.
SubBalanceClamped(h, st, amount) ==
    IF amount > h[st.Balance]
      THEN [heap |-> [h EXCEPT ![st.Balance] = 0], err |-> ErrNone]
      ELSE [heap |-> [h EXCEPT ![st.Balance] = h[st.Balance] - amount],
            err |-> ErrNone]

\* A debit that also rejects an amount equal to the balance.
SubBalanceStrict(h, st, amount) ==
    IF amount >= h[st.Balance]
      THEN [heap |-> h, err |-> ErrNotEnoughBalance]
      ELSE [heap |-> [h EXCEPT ![st.Balance] = h[st.Balance] - amount],
            err |-> ErrNone]

\* State.SubBalance: amount.Cmp(st.Balance) == 1 rejects, else Sub.
SubBalance(h, st, amount) ==
    IF amount > h[st.Balance]
      THEN [heap |-> h, err |-> ErrNotEnoughBalance]
      ELSE [heap |-> [h EXCEPT ![st.Balance] = h[st.Balance] - amount],
            err |-> ErrNone]

\* A clone that keeps the Voters map of the original.
cloneKeepVoters(h, a, accs, st) ==
    LET b == NewCell(UsedCells(accs))
        w == NewCell(UsedCells(accs) \cup {b})
        c == IF st.CodeHash = NilRef THEN NilRef ELSE NewArr(UsedArrs(accs))
    IN  [heap |-> [h EXCEPT ![b] = h[st.Balance], ![w] = h[st.VotingWeight]],
         arrs |-> IF c = NilRef THEN a ELSE [a EXCEPT ![c] = a[st.CodeHash]],
         st |-> [st EXCEPT !.Balance = b, !.VotingWeight = w, !.CodeHash = c]]

\* A clone that copies the struct only: Balance points at the original's
\* big.Int.
cloneShallow(h, a, accs, st) ==
    LET w == NewCell(UsedCells(accs))
        c == IF st.CodeHash = NilRef THEN NilRef ELSE NewArr(UsedArrs(accs))
    IN  [heap |-> [h EXCEPT ![w] = h[st.VotingWeight]],
         arrs |-> IF c = NilRef THEN a ELSE [a EXCEPT ![c] = a[st.CodeHash]],
         st |-> [st EXCEPT !.VotingWeight = w, !.CodeHash = c,
                           !.Voters = NilMap]]

\* State.clone: s := *st, then a new big.Int for Balance and VotingWeight,
\* a new array for a non-nil CodeHash, and Voters set to nil.
clone(h, a, accs, st) ==
    LET b == NewCell(UsedCells(accs))
        w == NewCell(UsedCells(accs) \cup {b})
        c == IF st.CodeHash = NilRef THEN NilRef ELSE NewArr(UsedArrs(accs))
    IN  [heap |-> [h EXCEPT ![b] = h[st.Balance], ![w] = h[st.VotingWeight]],
         arrs |-> IF c = NilRef THEN a ELSE [a EXCEPT ![c] = a[st.CodeHash]],
         st |-> [st EXCEPT !.Balance = b, !.VotingWeight = w, !.CodeHash = c,
                           !.Voters = NilMap]]

NoCall == [op |-> "none", target |-> "orig", amount |-> 0, err |-> ErrNone,
           pre |-> Val([c \in Cells |-> 0], [x \in Arrs |-> <<>>],
                       State(0, 1, "zero", NilRef, FALSE, 2, "", NilMap))]

\* encoding/gob leaves a field out of the stream when it holds the zero
\* value of its type: 0, false, "", an all-zero array, a slice or map of
\* length 0, a nil pointer.  Balance and VotingWeight are non-nil pointers
\* to a GobEncoder and are always sent.
FieldNames == {"Nonce", "Balance", "Root", "CodeHash", "IsCandidate",
               "VotingWeight", "Votee", "Voters"}
IsZero(v, f) ==
    CASE f = "Nonce" -> v.Nonce = 0
      [] f = "Root" -> v.Root = "zero"
      [] f = "CodeHash" -> Len(v.CodeHash.bytes) = 0
      [] f = "IsCandidate" -> v.IsCandidate = FALSE
      [] f = "Votee" -> v.Votee = ""
      [] f = "Voters" -> v.Voters.entries = {}
      [] OTHER -> FALSE

\* The stream: the fields sent and the contents of each.
Stream(sent, v) ==
    [sent |-> sent,
     Nonce |-> IF "Nonce" \in sent THEN v.Nonce ELSE 0,
     Balance |-> IF "Balance" \in sent THEN v.Balance ELSE 0,
     Root |-> IF "Root" \in sent THEN v.Root ELSE "zero",
     CodeHash |-> IF "CodeHash" \in sent THEN v.CodeHash.bytes ELSE <<>>,
     IsCandidate |-> IF "IsCandidate" \in sent THEN v.IsCandidate ELSE FALSE,
     VotingWeight |-> IF "VotingWeight" \in sent THEN v.VotingWeight ELSE 0,
     Votee |-> IF "Votee" \in sent THEN v.Votee ELSE "",
     Voters |-> IF "Voters" \in sent THEN v.Voters.entries ELSE {}]

NoWire == Stream({}, NoCall.pre)

\* An encoder that leaves the Voters map out of the stream.
stateToBytesCanonical(v) ==
    [err |-> ErrNone,
     bytes |-> Stream({f \in FieldNames \ {"Voters"} : ~IsZero(v, f)}, v)]

\* stateToBytes: gob.NewEncoder(&ss).Encode(s) on the whole struct.
stateToBytes(v) ==
    [err |-> ErrNone,
     bytes |-> Stream({f \in FieldNames : ~IsZero(v, f)}, v)]

\* bytesToState: gob.NewDecoder(...).Decode(&state) into a zero State; a
\* field that is not in the stream stays at its zero value (a nil slice,
\* a nil map).
bytesToState(ss) ==
    [err |-> ErrNone,
     st |-> [Nonce |-> ss.Nonce, Balance |-> ss.Balance, Root |-> ss.Root,
             CodeHash |-> IF "CodeHash" \in ss.sent
                            THEN [isNil |-> FALSE, bytes |-> ss.CodeHash]
                            ELSE [isNil |-> TRUE, bytes |-> <<>>],
             IsCandidate |-> ss.IsCandidate,
             VotingWeight |-> ss.VotingWeight, Votee |-> ss.Votee,
             Voters |-> IF "Voters" \in ss.sent
                          THEN MakeMap(ss.Voters) ELSE NilMap]]

AccountCreated ==
    /\ \E nonce \in 0..1, root \in Hashes, code \in {NilRef, 1},
          bytes \in ByteSeqs, cand \in BOOLEAN, vw \in 0..MaxWeight,
          votee \in Addresses, vs \in {NilMap} \cup {MakeMap(m) : m \in VoterMaps} :
         /\ code = NilRef => bytes = <<>>
         \* only a contract account has a storage root
         /\ (root = "zero") <=> (code = NilRef)
         /\ heap = [c \in Cells |-> IF c = 2 THEN vw ELSE 0]
         /\ arrs = [x \in Arrs |-> IF x = code THEN bytes ELSE <<>>]
         /\ accounts = [n \in {"orig"} |->
                          State(nonce, 1, root, code, cand, 2, votee, vs)]
    /\ ret = NoCall
    /\ negSeen = FALSE
    /\ prevRet = NoCall
    /\ wire = NoWire
    /\ decoded = NoCall.pre

\* The account part when only another part of the node is exercised.
AccountAtRest ==
    /\ heap = [c \in Cells |-> 0]
    /\ arrs = [x \in Arrs |-> <<>>]
    /\ accounts = [n \in {"orig"} |->
                     State(0, 1, "zero", NilRef, FALSE, 2, "", NilMap)]
    /\ ret = NoCall
    /\ negSeen = FALSE
    /\ prevRet = NoCall
    /\ wire = NoWire
    /\ decoded = NoCall.pre

InRange(b) == b >= (0 - MaxBalance) /\ b <= MaxBalance

CallAddBalance(n, amount) ==
    LET r == AddBalance(heap, accounts[n], amount)
    IN  /\ InRange(r.heap[accounts[n].Balance])
        /\ heap' = r.heap
        /\ ret' = [op |-> "AddBalance", target |-> n, amount |-> amount,
                   err |-> r.err, pre |-> Val(heap, arrs, accounts[n])]
        /\ negSeen' = (negSeen \/ amount < 0)
        /\ UNCHANGED <<arrs, accounts>>
        /\ UNCHANGED <<serverVars, poolVars, syncVars>>

CallSubBalance(n, amount) ==
    LET r == SubBalance(heap, accounts[n], amount)
    IN  /\ InRange(r.heap[accounts[n].Balance])
        /\ heap' = r.heap
        /\ ret' = [op |-> "SubBalance", target |-> n, amount |-> amount,
                   err |-> r.err, pre |-> Val(heap, arrs, accounts[n])]
        /\ negSeen' = (negSeen \/ amount < 0)
        /\ UNCHANGED <<arrs, accounts>>
        /\ UNCHANGED <<serverVars, poolVars, syncVars>>

\* cpy = orig.clone(); an earlier clone is dropped and its storage collected.
CallClone ==
    LET live == [n \in {"orig"} |-> accounts[n]]
        r == clone(heap, arrs, live, accounts["orig"])
        accs == [n \in {"orig", "cpy"} |->
                   IF n = "orig" THEN accounts["orig"] ELSE r.st]
    IN  /\ accounts' = accs
        /\ heap' = Collect(r.heap, accs)
        /\ arrs' = CollectArrs(r.arrs, accs)
        /\ ret' = [op |-> "clone", target |-> "orig", amount |-> 0,
                   err |-> ErrNone, pre |-> Val(heap, arrs, accounts["orig"])]
        /\ UNCHANGED negSeen
        /\ UNCHANGED <<serverVars, poolVars, syncVars>>

\* A caller writes through the VotingWeight pointer of a State:
\* st.VotingWeight.SetUint64(v).
WriteVotingWeight(n, v) ==
    /\ heap' = [heap EXCEPT ![accounts[n].VotingWeight] = v]
    /\ ret' = [op |-> "WriteVotingWeight", target |-> n, amount |-> v,
               err |-> ErrNone, pre |-> Val(heap, arrs, accounts[n])]
    /\ UNCHANGED <<arrs, accounts, negSeen>>
    /\ UNCHANGED <<serverVars, poolVars, syncVars>>

\* A caller writes a byte of the CodeHash slice of a State:
\* st.CodeHash[0] = b.
WriteCodeHash(n, b) ==
    /\ accounts[n].CodeHash # NilRef
    /\ Len(arrs[accounts[n].CodeHash]) > 0
    /\ arrs' = [arrs EXCEPT ![accounts[n].CodeHash][1] = b]
    /\ ret' = [op |-> "WriteCodeHash", target |-> n, amount |-> b,
               err |-> ErrNone, pre |-> Val(heap, arrs, accounts[n])]
    /\ UNCHANGED <<heap, accounts, negSeen>>
    /\ UNCHANGED <<serverVars, poolVars, syncVars>>

NextState ==
    /\ \/ \E n \in DOMAIN accounts, amount \in Amounts :
             CallAddBalance(n, amount)
       \/ \E n \in DOMAIN accounts, amount \in Amounts :
             CallSubBalance(n, amount)
       \/ CallClone
    /\ UNCHANGED <<prevRet, wire, decoded>>

\* The mutations of an original and its clone: balance, voting weight and
\* the bytes of the code hash.
Mutators == {"AddBalance", "SubBalance", "WriteVotingWeight", "WriteCodeHash"}
Bytes == {7, 9}
StepAmounts == {1}

NextAlias ==
    /\ \/ \E n \in DOMAIN accounts, amount \in StepAmounts :
             CallAddBalance(n, amount)
       \/ \E n \in DOMAIN accounts, amount \in StepAmounts :
             CallSubBalance(n, amount)
       \/ CallClone
       \/ \E n \in DOMAIN accounts, v \in 0..MaxWeight :
             WriteVotingWeight(n, v)
       \/ \E n \in DOMAIN accounts, b \in Bytes : WriteCodeHash(n, b)
    /\ UNCHANGED <<prevRet, wire, decoded>>

\* A debit and then a credit of one account, each call remembered.
NextTrip ==
    /\ \/ \E amount \in 0..MaxAmount : CallAddBalance("orig", amount)
       \/ \E amount \in 0..MaxAmount : CallSubBalance("orig", amount)
    /\ prevRet' = ret
    /\ UNCHANGED <<wire, decoded>>

\* ss, err := stateToBytes(&st)
CallStateToBytes(n) ==
    LET r == stateToBytes(Val(heap, arrs, accounts[n]))
    IN  /\ wire' = r.bytes
        /\ ret' = [op |-> "stateToBytes", target |-> n, amount |-> 0,
                   err |-> r.err, pre |-> Val(heap, arrs, accounts[n])]
        /\ UNCHANGED <<heap, arrs, accounts, negSeen, decoded>>
        /\ UNCHANGED <<serverVars, poolVars, syncVars>>

\* st, err := bytesToState(ss), on the bytes stateToBytes produced last
CallBytesToState ==
    LET r == bytesToState(wire)
    IN  /\ ret.op = "stateToBytes"
        /\ decoded' = r.st
        /\ ret' = [op |-> "bytesToState", target |-> ret.target, amount |-> 0,
                   err |-> r.err, pre |-> NoCall.pre]
        /\ UNCHANGED <<heap, arrs, accounts, negSeen, wire>>
        /\ UNCHANGED <<serverVars, poolVars, syncVars>>

NextCodec ==
    /\ \/ /\ \E amount \in StepAmounts : CallAddBalance("orig", amount)
          /\ UNCHANGED <<wire, decoded>>
       \/ CallStateToBytes("orig")
       \/ CallBytesToState
    /\ prevRet' = ret

(***************************************************************************)
(* server/itx/server.go: Server.Start and Server.Stop                      *)
(***************************************************************************)
Stages == {"chain", "dispatcher", "consensus", "blocksync", "p2p", "explorer"}
StageErrs == {"e1", "e2"}

NoErr == [msg |-> "", cause |-> ErrNone]
\* errors.Wrap(err, msg)
Wrap(err, msg) == [msg |-> msg, cause |-> err]
NoReturn == [op |-> "none", err |-> NoErr]

\* Start with dispatcher and consensus exchanged.
StartOrderSwapped ==
    <<"chain", "consensus", "dispatcher", "blocksync", "p2p", "explorer">>

\* The order of the s.<stage>.Start(ctx) statements of Server.Start.
StartOrder ==
    <<"chain", "dispatcher", "consensus", "blocksync", "p2p", "explorer">>

\* The order of the s.<stage>.Stop(ctx) statements of Server.Stop.
StopOrder ==
    <<"explorer", "p2p", "consensus", "blocksync", "dispatcher", "chain">>

\* The message each failing stage's error is wrapped with.
StartMsg(stage) ==
    CASE stage = "chain" -> "error when starting blockchain"
      [] stage = "dispatcher" -> "error when starting dispatcher"
      [] stage = "consensus" -> "error when starting consensus"
      [] stage = "blocksync" -> "error when starting blocksync"
      [] stage = "p2p" -> "error when starting P2P networks"
      [] stage = "explorer" -> "error when starting explorer"

StopMsg(stage) ==
    CASE stage = "chain" -> "error when stopping blockchain"
      [] stage = "dispatcher" -> "error when stopping dispatcher"
      [] stage = "consensus" -> "error when stopping consensus"
      [] stage = "blocksync" -> "error when stopping blocksync"
      [] stage = "p2p" -> "error when stopping P2P networks"
      [] stage = "explorer" -> "error when stopping explorer"

\* The positions of order whose stage operation fails under res.
Failing(order, res) == {i \in 1..Len(order) : res[order[i]] # ErrNone}
Min(S) == CHOOSE i \in S : \A j \in S : i <= j

\* A sequence of stage operations that goes on after a failure.
RunStagesNoAbort(order, res) ==
    [i \in 1..Len(order) |-> [stage |-> order[i], err |-> res[order[i]]]]

\* if err := s.<stage>.Op(ctx); err != nil { return ... }, statement after
\* statement: the operations invoked, up to and including the first failure.
RunStages(order, res) ==
    LET last == IF Failing(order, res) = {} THEN Len(order)
                ELSE Min(Failing(order, res))
    IN  [i \in 1..last |-> [stage |-> order[i], err |-> res[order[i]]]]

\* The error of a run of op ("Start" or "Stop"): the first failure wrapped
\* with the message of its stage, or nil.
RunError(log, op) ==
    LET bad == {i \in 1..Len(log) : log[i].err # ErrNone}
        stage == log[Min(bad)].stage
    IN  IF bad = {} THEN NoErr
        ELSE Wrap(log[Min(bad)].err,
                  IF op = "Start" THEN StartMsg(stage) ELSE StopMsg(stage))

Succeeded(log) == {log[i].stage : i \in {j \in 1..Len(log) : log[j].err = ErrNone}}

\* Server.Start; res is what each stage's Start would return.
Start(res) ==
    LET log == RunStages(StartOrder, res)
    IN  /\ srvLog' = log
        /\ srvRet' = [op |-> "Start", err |-> RunError(log, "Start")]
        /\ running' = running \cup Succeeded(log)
        /\ UNCHANGED <<boot, subs, subRet>>
        /\ UNCHANGED <<stateVars, poolVars, syncVars>>

\* Server.Stop; res is what each stage's Stop would return.
Stop(res) ==
    LET log == RunStages(StopOrder, res)
    IN  /\ srvLog' = log
        /\ srvRet' = [op |-> "Stop", err |-> RunError(log, "Stop")]
        /\ running' = running \ Succeeded(log)
        /\ UNCHANGED <<boot, subs, subRet>>
        /\ UNCHANGED <<stateVars, poolVars, syncVars>>

StageResults == [Stages -> {ErrNone} \cup StageErrs]

(***************************************************************************)
(* server/itx/server.go: NewServer and newServer; the dispatcher's         *)
(* subscriber table is in another package and modelled from spec.md 4.3    *)
(***************************************************************************)
MaxChainID == 2
ChainIDs == 1..MaxChainID
HandlerSets == {"bcService", "other"}
ErrDuplicateSubscriber == "DuplicateSubscriber"

\* A blockchain.Blockchain: nil, the chain opened from the files on disk,
\* or the chain created on fresh files.
Chain(kind, id) == [kind |-> kind, id |-> id]
NilChain == Chain("nil", 0)

Step(op, arg, id) == [op |-> op, arg |-> arg, id |-> id]

\* Dispatcher.AddSubscriber (spec.md 4.3): at most one subscriber per chain
\* id; registering for an id that has one fails with DuplicateSubscriber.
AddSubscriber(table, id, h) ==
    IF \E x \in table : x.id = id
      THEN [subs |-> table, err |-> ErrDuplicateSubscriber]
      ELSE [subs |-> table \cup {[id |-> id, handler |-> h]}, err |-> ErrNone]

\* What NewServer is given: whether the first and the second NewBlockchain
\* succeed, cfg.Chain.EnableFallBackToFreshDB, what the two os.Rename calls
\* return, the chain's id, the constructor that fails (if any) and
\* cfg.Explorer.IsTest.
Constructors == <<"NewActPool", "NewBlockSyncer", "NewConsensus",
                  "NewDispatcher">>
Broken == {"none", "NewActPool", "NewBlockSyncer", "NewConsensus",
           "NewDispatcher"}
Inputs ==
    [init1 : BOOLEAN, fallback : BOOLEAN, renChain : {ErrNone, "e1"},
     renTrie : {ErrNone, "e1"}, init2 : BOOLEAN, id : ChainIDs,
     broken : Broken, isTest : BOOLEAN]

Outcome(in, steps, result, ch, table) ==
    [in |-> in, steps |-> steps, result |-> result, chain |-> ch,
     subs |-> table]

\* The constructors newServer calls up to the one that fails.
RECURSIVE Construct(_, _)
Construct(i, broken) ==
    IF i > Len(Constructors) THEN <<>>
    ELSE IF Constructors[i] = broken THEN <<Step(Constructors[i], "error", 0)>>
    ELSE <<Step(Constructors[i], "ok", 0)>> \o Construct(i + 1, broken)

\* A newServer that attaches the dispatcher to the network before the
\* subscriber is registered.
newServerAttachFirst(in, ch) ==
    LET made == <<Step("NewOverlay", "ok", 0)>> \o Construct(1, in.broken)
        r == AddSubscriber({}, ch.id, "bcService")
    IN  IF in.broken # "none"
          THEN Outcome(in, made, "fatal", ch, {})
          ELSE Outcome(in,
                       made \o <<Step("AttachDispatcher", "", 0),
                                 Step("ChainID", ch.kind, ch.id),
                                 Step("AddSubscriber", ch.kind, ch.id),
                                 Step(IF in.isTest THEN "NewTestSever"
                                      ELSE "explorer.NewServer", "ok", 0)>>,
                       "server", ch, r.subs)

\* newServer: the overlay, the action pool, the block syncer, consensus and
\* the dispatcher are created (logger.Fatal ends the process when one
\* fails), the bcService is registered for chain.ChainID(), the dispatcher
\* is attached to the overlay and the explorer is created.
newServer(in, ch) ==
    LET made == <<Step("NewOverlay", "ok", 0)>> \o Construct(1, in.broken)
        r == AddSubscriber({}, ch.id, "bcService")
    IN  IF in.broken # "none"
          THEN Outcome(in, made, "fatal", ch, {})
          ELSE Outcome(in,
                       made \o <<Step("ChainID", ch.kind, ch.id),
                                 Step("AddSubscriber", ch.kind, ch.id),
                                 Step("AttachDispatcher", "", 0),
                                 Step(IF in.isTest THEN "NewTestSever"
                                      ELSE "explorer.NewServer", "ok", 0)>>,
                       "server", ch, r.subs)

\* NewServer from line 110 on: chain.ChainID() for the log line, which
\* panics on a nil chain, then newServer(cfg, chain).
Proceed(in, steps, ch) ==
    LET s == Append(steps, Step("ChainID", ch.kind, ch.id))
    IN  IF ch = NilChain
          THEN Outcome(in, s, "panic", ch, {})
          ELSE LET r == newServer(in, ch)
               IN  Outcome(in, s \o r.steps, r.result, ch, r.subs)

\* A NewServer that goes on to the fresh chain whatever os.Rename returned.
NewServerIgnoreRename(in) ==
    LET c1 == IF in.init1 THEN Chain("disk", in.id) ELSE NilChain
        c2 == IF in.init2 THEN Chain("fresh", in.id) ELSE NilChain
        s1 == <<Step("NewBlockchain", c1.kind, c1.id)>>
    IN  IF c1 = NilChain /\ in.fallback
          THEN Proceed(in, s1 \o <<Step("Rename", "chain", 0),
                                   Step("Rename", "trie", 0),
                                   Step("NewBlockchain", c2.kind, c2.id)>>, c2)
          ELSE Proceed(in, s1, c1)

\* NewServer: NewBlockchain; when it returned nil and the fallback flag is
\* set, the chain db and then the trie db are renamed (return nil when a
\* rename fails) and NewBlockchain is called again; then line 110 on.
NewServer(in) ==
    LET c1 == IF in.init1 THEN Chain("disk", in.id) ELSE NilChain
        c2 == IF in.init2 THEN Chain("fresh", in.id) ELSE NilChain
        s1 == <<Step("NewBlockchain", c1.kind, c1.id)>>
        s2 == Append(s1, Step("Rename", "chain", 0))
        s3 == Append(s2, Step("Rename", "trie", 0))
    IN  IF c1 = NilChain /\ in.fallback
          THEN IF in.renChain # ErrNone THEN Outcome(in, s2, "nil", NilChain, {})
               ELSE IF in.renTrie # ErrNone
                 THEN Outcome(in, s3, "nil", NilChain, {})
               ELSE Proceed(in, Append(s3, Step("NewBlockchain", c2.kind, c2.id)),
                            c2)
          ELSE Proceed(in, s1, c1)

\* The chain on disk opens, nothing fails.
Sound ==
    [init1 |-> TRUE, fallback |-> FALSE, renChain |-> ErrNone,
     renTrie |-> ErrNone, init2 |-> TRUE, id |-> 1, broken |-> "none",
     isTest |-> FALSE]

NoBoot == [in |-> Sound, steps |-> <<>>, result |-> "none", chain |-> NilChain]
NoSubRet == [op |-> "none", id |-> 0, handler |-> "", err |-> ErrNone,
             pre |-> {}]

\* The process before NewServer is called.
ProcessStarted ==
    /\ srvLog = <<>>
    /\ srvRet = NoReturn
    /\ running = {}
    /\ boot = NoBoot
    /\ subs = {}
    /\ subRet = NoSubRet

\* A constructed server: nothing started, no call made yet.
ServerConstructed ==
    /\ srvLog = <<>>
    /\ srvRet = NoReturn
    /\ running = {}
    /\ boot = [f \in DOMAIN NoBoot |-> NewServer(Sound)[f]]
    /\ subs = NewServer(Sound).subs
    /\ subRet = NoSubRet

\* s := NewServer(cfg), once in the life of the process
CallNewServer(in) ==
    LET r == NewServer(in)
    IN  /\ boot.result = "none"
        /\ boot' = [f \in DOMAIN NoBoot |-> r[f]]
        /\ subs' = r.subs
        /\ UNCHANGED <<srvLog, srvRet, running, subRet>>
        /\ UNCHANGED <<stateVars, poolVars, syncVars>>

\* s.Dispatcher().AddSubscriber(id, h) on the server NewServer returned
CallAddSubscriber(id, h) ==
    LET r == AddSubscriber(subs, id, h)
    IN  /\ boot.result = "server"
        /\ subs' = r.subs
        /\ subRet' = [op |-> "AddSubscriber", id |-> id, handler |-> h,
                      err |-> r.err, pre |-> subs]
        /\ UNCHANGED <<srvLog, srvRet, running, boot>>
        /\ UNCHANGED <<stateVars, poolVars, syncVars>>

NextBoot ==
    \/ \E in \in Inputs : CallNewServer(in)
    \/ \E id \in ChainIDs, h \in HandlerSets : CallAddSubscriber(id, h)

NextServer ==
    \/ \E res \in StageResults : Start(res)
    \/ \E res \in StageResults : Stop(res)

(***************************************************************************)
(* The action pool (spec.md 4.2 and 5) behind bcService.HandleAction       *)
(***************************************************************************)
MaxPoolBalance == 2

Senders == {"A", "B"}
Nonces == {1, 2}
NextNonces == Nonces \cup {3}
TransferAmounts == {1, 2}
ExecutionAmounts == {1}
Workers == {1, 2}

ErrDuplicateNonce == "DuplicateNonce"
ErrInsufficientBalance == "InsufficientBalance"

\* An action: Transfer and Execution carry an amount, Vote carries none.
Action(sender, nonce, kind, amount) ==
    [sender |-> sender, nonce |-> nonce, kind |-> kind, amount |-> amount]

Actions ==
    {Action(s, n, "Transfer", a) : s \in Senders, n \in Nonces, a \in TransferAmounts}
      \cup {Action(s, n, "Execution", a) :
                s \in Senders, n \in Nonces, a \in ExecutionAmounts}
      \cup {Action(s, n, "Vote", 0) : s \in Senders, n \in Nonces}

\* pb.ActionPb: the payload is a oneof, so at most one of GetTransfer,
\* GetVote and GetExecution is non-nil; "None" carries no payload.
ActionPbs == Actions \cup {Action(s, n, "None", 0) : s \in Senders, n \in Nonces}

GetTransfer(act) == act.kind = "Transfer"
GetVote(act) == act.kind = "Vote"
GetExecution(act) == act.kind = "Execution"

\* ConvertFromActionPb: the action built from the message's fields.
ConvertFromActionPb(act, kind) ==
    Action(act.sender, act.nonce, kind, act.amount)

RECURSIVE SumAmounts(_)
SumAmounts(acts) ==
    IF acts = {} THEN 0
    ELSE LET a == CHOOSE x \in acts : TRUE
         IN  a.amount + SumAmounts(acts \ {a})

Of(pool, s) == {a \in pool : a.sender = s}
Lower(pool, act) == {a \in Of(pool, act.sender) : a.nonce < act.nonce}

\* admit, checks (1) and (2): the nonce is not behind the chain and not
\* occupied in the pool; the balance covers the amounts reserved by the
\* sender's lower-nonce pending actions plus this one.
Validate(pool, ch, act) ==
    IF \/ act.nonce < ch[act.sender].nonce
       \/ \E a \in Of(pool, act.sender) : a.nonce = act.nonce
      THEN ErrDuplicateNonce
    ELSE IF /\ act.kind \in {"Transfer", "Execution"}
            /\ ch[act.sender].balance - SumAmounts(Lower(pool, act)) < act.amount
      THEN ErrInsufficientBalance
    ELSE ErrNone

\* admit: a valid action is inserted at the position of its nonce; a
\* rejected one leaves the pool as it was.
Admit(pool, ch, act) ==
    LET e == Validate(pool, ch, act)
    IN  [pool |-> IF e = ErrNone THEN pool \cup {act} ELSE pool, err |-> e]

AddTsf(pool, ch, tsf) == Admit(pool, ch, tsf)
AddVote(pool, ch, vote) == Admit(pool, ch, vote)
AddExecution(pool, ch, execution) == Admit(pool, ch, execution)

Call(op, act, r) == <<[op |-> op, act |-> act, err |-> r.err]>>

\* A handler that reports success whatever the pool answered.
HandleActionSwallow(pool, ch, act) ==
    IF GetTransfer(act) THEN
        LET r == AddTsf(pool, ch, ConvertFromActionPb(act, "Transfer"))
        IN  [pool |-> r.pool, err |-> ErrNone,
             calls |-> Call("AddTsf", ConvertFromActionPb(act, "Transfer"), r)]
    ELSE IF GetVote(act) THEN
        LET r == AddVote(pool, ch, ConvertFromActionPb(act, "Vote"))
        IN  [pool |-> r.pool, err |-> ErrNone,
             calls |-> Call("AddVote", ConvertFromActionPb(act, "Vote"), r)]
    ELSE IF GetExecution(act) THEN
        LET r == AddExecution(pool, ch, ConvertFromActionPb(act, "Execution"))
        IN  [pool |-> r.pool, err |-> ErrNone,
             calls |-> Call("AddExecution", ConvertFromActionPb(act, "Execution"), r)]
    ELSE [pool |-> pool, err |-> ErrNone, calls |-> <<>>]

\* bcService.HandleAction: the if / else-if chain over the payload; the
\* pool's error is returned, and nil when no branch is taken.
HandleAction(pool, ch, act) ==
    IF GetTransfer(act) THEN
        LET r == AddTsf(pool, ch, ConvertFromActionPb(act, "Transfer"))
        IN  [pool |-> r.pool, err |-> r.err,
             calls |-> Call("AddTsf", ConvertFromActionPb(act, "Transfer"), r)]
    ELSE IF GetVote(act) THEN
        LET r == AddVote(pool, ch, ConvertFromActionPb(act, "Vote"))
        IN  [pool |-> r.pool, err |-> r.err,
             calls |-> Call("AddVote", ConvertFromActionPb(act, "Vote"), r)]
    ELSE IF GetExecution(act) THEN
        LET r == AddExecution(pool, ch, ConvertFromActionPb(act, "Execution"))
        IN  [pool |-> r.pool, err |-> r.err,
             calls |-> Call("AddExecution", ConvertFromActionPb(act, "Execution"), r)]
    ELSE [pool |-> pool, err |-> ErrNone, calls |-> <<>>]

\* evict, revalidation: a sender's actions of nonce <= n that stay, taken in
\* nonce order, each kept when the balance covers it on top of the kept
\* lower ones.
RECURSIVE Kept(_, _, _)
Kept(acts, bal, ns) ==
    IF ns = {} THEN {}
    ELSE LET n == CHOOSE x \in ns : \A y \in ns : y <= x
             lower == Kept(acts, bal, ns \ {n})
         IN  lower \cup {a \in acts : /\ a.nonce = n
                                       /\ bal - SumAmounts(lower) >= a.amount}

\* An evict that drops the stale nonces and revalidates nothing.
EvictStaleOnly(pool, ch) == {a \in pool : a.nonce >= ch[a.sender].nonce}

\* evict: drop every action whose nonce is behind its sender's on-chain
\* nonce, then revalidate each sender's reservation chain.
Evict(pool, ch) ==
    UNION {Kept({a \in Of(pool, s) : a.nonce >= ch[s].nonce},
                ch[s].balance, Nonces) : s \in Senders}

NoMsg == Action("A", 1, "None", 0)
NoHandled == [op |-> "none", msg |-> NoMsg, err |-> ErrNone, calls |-> <<>>,
              dropped |-> {}]
Idle == [busy |-> FALSE, act |-> NoMsg, err |-> ErrNone]

AccountStates == [nonce : NextNonces, balance : 0..MaxPoolBalance]
ChainStates == [Senders -> AccountStates]

\* A new pool over some committed state.
PoolCreated ==
    /\ chain \in ChainStates
    /\ pending = {}
    /\ hRet = NoHandled
    /\ inflight = [w \in Workers |-> Idle]

\* A new pool over a committed state in which the senders' accounts are alike.
PoolCreatedAlike ==
    /\ PoolCreated
    /\ \A s, t \in Senders : chain[s] = chain[t]

PoolAtRest ==
    /\ chain = [s \in Senders |-> [nonce |-> 1, balance |-> 0]]
    /\ pending = {}
    /\ hRet = NoHandled
    /\ inflight = [w \in Workers |-> Idle]

\* The dispatcher delivers an action message to bcService.HandleAction.
CallHandleAction(act) ==
    LET r == HandleAction(pending, chain, act)
    IN  /\ pending' = r.pool
        /\ hRet' = [op |-> "HandleAction", msg |-> act, err |-> r.err,
                    calls |-> r.calls, dropped |-> {}]
        /\ UNCHANGED <<chain, inflight>>
        /\ UNCHANGED <<stateVars, serverVars, syncVars>>

\* A block commits and changes the committed state of account s (its nonce
\* does not go back); the pool then evicts against the new committed state.
\* A block that touches several accounts is a sequence of these steps.
CommitAndEvict(s, acct) ==
    /\ acct # chain[s]
    /\ acct.nonce >= chain[s].nonce
    /\ chain' = [chain EXCEPT ![s] = acct]
    /\ pending' = Evict(pending, chain')
    /\ hRet' = [op |-> "evict", msg |-> NoMsg, err |-> ErrNone, calls |-> <<>>,
                dropped |-> pending \ pending']
    /\ UNCHANGED inflight
    /\ UNCHANGED <<stateVars, serverVars, syncVars>>

\* Admissions of different senders run side by side.
NoLock(s) == TRUE

\* The per-sender critical section: no admission of sender s is under way.
LockFree(s) == \A w \in Workers : ~(inflight[w].busy /\ inflight[w].act.sender = s)

\* Worker w enters admit(act): it takes the sender's critical section and
\* validates the action against the pool and the committed state.
AdmitBegin(w, act) ==
    /\ ~inflight[w].busy
    /\ LockFree(act.sender)
    /\ inflight' = [inflight EXCEPT ![w] =
                      [busy |-> TRUE, act |-> act,
                       err |-> Validate(pending, chain, act)]]
    /\ UNCHANGED <<chain, pending, hRet>>
    /\ UNCHANGED <<stateVars, serverVars, syncVars>>

\* Worker w leaves admit: a valid action is inserted, the critical section
\* is left and the verdict is returned.
AdmitEnd(w) ==
    /\ inflight[w].busy
    /\ pending' = IF inflight[w].err = ErrNone
                    THEN pending \cup {inflight[w].act}
                    ELSE pending
    /\ inflight' = [inflight EXCEPT ![w] = Idle]
    /\ UNCHANGED <<chain, hRet>>
    /\ UNCHANGED <<stateVars, serverVars, syncVars>>

NextAdmit ==
    \/ \E w \in Workers, act \in Actions : AdmitBegin(w, act)
    \/ \E w \in Workers : AdmitEnd(w)

NextPool ==
    \/ \E act \in ActionPbs : CallHandleAction(act)
    \/ \E s \in Senders, acct \in AccountStates : CommitAndEvict(s, acct)

(***************************************************************************)
(* The block syncer (spec.md 4.4) behind bcService.HandleBlock and         *)
(* bcService.HandleBlockSync; a block is identified by its height, and     *)
(* what applying it does to the store and the pool is CommitAndEvict.      *)
(***************************************************************************)
MaxHeight == 5
MaxStartHeight == 2
MaxArrivals == 3

Heights == 1..MaxHeight

Cursor(h, buf, req) ==
    [height |-> h, buffer |-> buf,
     state |-> IF buf = {} THEN "Idle" ELSE "Buffering", requested |-> req]

Max(a, b) == IF a >= b THEN a ELSE b

\* Apply the buffered blocks that continue the chain, in height order.
RECURSIVE Drain(_, _, _)
Drain(h, buf, app) ==
    IF (h + 1) \in buf
      THEN Drain(h + 1, buf \ {h + 1}, Append(app, h + 1))
      ELSE [height |-> h, buffer |-> buf, applied |-> app]

\* An application rule that applies any block above the local height.
AcceptAnyHigher(cur, app, blk, live) ==
    IF blk > cur.height
      THEN [cursor |-> Cursor(blk, cur.buffer, cur.requested),
            applied |-> Append(app, blk)]
      ELSE [cursor |-> cur, applied |-> app]

\* The application rule of both paths: the next block is applied and the
\* buffer drained; a block ahead of a gap is buffered (the live path then
\* requests the missing range); a block at or below the height is dropped.
Accept(cur, app, blk, live) ==
    IF blk = cur.height + 1 THEN
        LET d == Drain(blk, cur.buffer, Append(app, blk))
        IN  [cursor |-> Cursor(d.height, d.buffer, cur.requested),
             applied |-> d.applied]
    ELSE IF blk > cur.height + 1 THEN
        [cursor |-> Cursor(cur.height, cur.buffer \cup {blk},
                           IF live THEN Max(cur.requested, blk - 1)
                           ELSE cur.requested),
         applied |-> app]
    ELSE [cursor |-> cur, applied |-> app]

\* What a handler did: the calls it made on the subsystems (ap, bs, cs),
\* each with the arguments passed and the error it returned, and the error
\* the handler returned.
Forwarded(target, op, args, res) ==
    [calls |-> <<[target |-> target, op |-> op, args |-> args, err |-> res]>>,
     err |-> res]
Handled(handler, args, r) ==
    [handler |-> handler, args |-> args, calls |-> r.calls, err |-> r.err]
NoForward ==
    [handler |-> "none", args |-> <<>>, calls |-> <<>>, err |-> ErrNone]

ProcessBlock(cur, app, blk) == Accept(cur, app, blk, TRUE)
ProcessBlockSync(cur, app, blk) == Accept(cur, app, blk, FALSE)

\* A block syncer over a chain of some height, nothing buffered.
SyncCreated ==
    /\ startHeight \in 0..MaxStartHeight
    /\ cursor = Cursor(startHeight, {}, startHeight)
    /\ applied = <<>>
    /\ arrivals = <<>>
    /\ fwd = NoForward

SyncAtRest ==
    /\ startHeight = 0
    /\ cursor = Cursor(0, {}, 0)
    /\ applied = <<>>
    /\ arrivals = <<>>
    /\ fwd = NoForward

\* bcService.HandleBlock: return bcs.bs.ProcessBlock(blk)
HandleBlock(blk) ==
    LET r == ProcessBlock(cursor, applied, blk)
    IN  /\ Len(arrivals) < MaxArrivals
        /\ cursor' = r.cursor
        /\ applied' = r.applied
        /\ arrivals' = Append(arrivals, [path |-> "live", height |-> blk])
        /\ fwd' = Handled("HandleBlock", <<blk>>,
                          Forwarded("bs", "ProcessBlock", <<blk>>, ErrNone))
        /\ UNCHANGED startHeight
        /\ UNCHANGED <<stateVars, serverVars, poolVars>>

\* bcService.HandleBlockSync: return bcs.bs.ProcessBlockSync(blk)
HandleBlockSync(blk) ==
    LET r == ProcessBlockSync(cursor, applied, blk)
    IN  /\ Len(arrivals) < MaxArrivals
        /\ cursor' = r.cursor
        /\ applied' = r.applied
        /\ arrivals' = Append(arrivals, [path |-> "sync", height |-> blk])
        /\ fwd' = Handled("HandleBlockSync", <<blk>>,
                          Forwarded("bs", "ProcessBlockSync", <<blk>>, ErrNone))
        /\ UNCHANGED startHeight
        /\ UNCHANGED <<stateVars, serverVars, poolVars>>

NextSync ==
    \/ \E blk \in Heights : HandleBlock(blk)
    \/ \E blk \in Heights : HandleBlockSync(blk)

\* The peers, sync requests and consensus messages that arrive, and what
\* the subsystem called answers.
Peers == {"p1", "p2"}
SyncRequests == {[start |-> 1, end |-> 2], [start |-> 2, end |-> 3]}
Messages == {"m1", "m2"}
Answers == {ErrNone, "e1"}

\* A view-change handler that hands the message to the proposal handler.
HandleViewChangeAsPropose(msg, res) ==
    Forwarded("cs", "HandleBlockPropose", <<msg>>, res)

\* bcService.HandleSyncRequest: return bcs.bs.ProcessSyncRequest(sender, sync)
HandleSyncRequest(sender, sync, res) ==
    Forwarded("bs", "ProcessSyncRequest", <<sender, sync>>, res)

\* bcService.HandleViewChange: return bcs.cs.HandleViewChange(msg)
HandleViewChange(msg, res) ==
    Forwarded("cs", "HandleViewChange", <<msg>>, res)

\* bcService.HandleBlockPropose: return bcs.cs.HandleBlockPropose(msg)
HandleBlockPropose(msg, res) ==
    Forwarded("cs", "HandleBlockPropose", <<msg>>, res)

CallHandleSyncRequest(sender, sync, res) ==
    /\ fwd' = Handled("HandleSyncRequest", <<sender, sync>>,
                      HandleSyncRequest(sender, sync, res))
    /\ UNCHANGED <<cursor, applied, arrivals, startHeight>>
    /\ UNCHANGED <<stateVars, serverVars, poolVars>>

CallHandleViewChange(msg, res) ==
    /\ fwd' = Handled("HandleViewChange", <<msg>>, HandleViewChange(msg, res))
    /\ UNCHANGED <<cursor, applied, arrivals, startHeight>>
    /\ UNCHANGED <<stateVars, serverVars, poolVars>>

CallHandleBlockPropose(msg, res) ==
    /\ fwd' = Handled("HandleBlockPropose", <<msg>>,
                      HandleBlockPropose(msg, res))
    /\ UNCHANGED <<cursor, applied, arrivals, startHeight>>
    /\ UNCHANGED <<stateVars, serverVars, poolVars>>

NextForward ==
    \/ \E blk \in Heights : HandleBlock(blk)
    \/ \E blk \in Heights : HandleBlockSync(blk)
    \/ \E sender \in Peers, sync \in SyncRequests, res \in Answers :
         CallHandleSyncRequest(sender, sync, res)
    \/ \E msg \in Messages, res \in Answers : CallHandleViewChange(msg, res)
    \/ \E msg \in Messages, res \in Answers : CallHandleBlockPropose(msg, res)

(***************************************************************************)
(* The specifications, one for each part                                   *)
(***************************************************************************)
InitState == AccountCreated /\ ServerConstructed /\ PoolAtRest /\ SyncAtRest
SpecState == InitState /\ [][NextState]_vars

SpecAlias == InitState /\ [][NextAlias]_vars
SpecTrip == InitState /\ [][NextTrip]_vars
SpecCodec == InitState /\ [][NextCodec]_vars

InitServer == AccountAtRest /\ ServerConstructed /\ PoolAtRest /\ SyncAtRest
SpecServer == InitServer /\ [][NextServer]_vars

InitBoot == AccountAtRest /\ ProcessStarted /\ PoolAtRest /\ SyncAtRest
SpecBoot == InitBoot /\ [][NextBoot]_vars

InitPool == AccountAtRest /\ ServerConstructed /\ PoolCreated /\ SyncAtRest
SpecPool == InitPool /\ [][NextPool]_vars

InitAdmit == AccountAtRest /\ ServerConstructed /\ PoolCreatedAlike /\ SyncAtRest
SpecAdmit == InitAdmit /\ [][NextAdmit]_vars

InitSync == AccountAtRest /\ ServerConstructed /\ PoolAtRest /\ SyncCreated
SpecSync == InitSync /\ [][NextSync]_vars
InitForward == AccountAtRest /\ ServerConstructed /\ PoolAtRest /\ SyncAtRest
SpecForward == InitForward /\ [][NextForward]_vars

(***************************************************************************)
(* The properties                                                          *)
(***************************************************************************)
BalanceOf(n) == heap[accounts[n].Balance]
ValueOf(n) == Val(heap, arrs, accounts[n])

\* C1: SubBalance(amount) with amount > balance returns ErrNotEnoughBalance
\* and leaves the balance and every other field of the state as they were.
C1_RejectedDebitLeavesState ==
    (ret.op = "SubBalance" /\ ret.amount > ret.pre.Balance)
        => /\ ret.err = ErrNotEnoughBalance
           /\ ValueOf(ret.target) = ret.pre

C1_Witness ==
    /\ ret.op = "SubBalance"
    /\ ret.pre.Balance = 1
    /\ ret.amount = 2
    /\ ret.err = ErrNotEnoughBalance
    /\ BalanceOf(ret.target) = 1

\* C2: while every amount passed so far was >= 0, every balance is >= 0, and
\* a debit that would take the balance below zero returned an error and left
\* the balance as it was (rejected: not applied, not clamped).
C2_BalanceNeverNegative ==
    ~negSeen =>
        /\ \A n \in DOMAIN accounts : BalanceOf(n) >= 0
        /\ (ret.op = "SubBalance" /\ ret.pre.Balance - ret.amount < 0)
              => (ret.err # ErrNone /\ BalanceOf(ret.target) = ret.pre.Balance)

C2_Witness ==
    /\ ~negSeen
    /\ ret.op = "SubBalance"
    /\ ret.target = "cpy"
    /\ ret.pre.Balance = 0
    /\ ret.amount = 1
    /\ ret.err = ErrNotEnoughBalance
    /\ BalanceOf("cpy") = 0
    /\ BalanceOf("orig") = 3

Reverse(seq) == [i \in 1..Len(seq) |-> seq[Len(seq) + 1 - i]]
StagesOf(log) == [i \in 1..Len(log) |-> log[i].stage]

\* C3: a fully successful Stop invokes the Stop operations in the exact
\* reverse of the order in which Start starts the stages: explorer, network
\* transport, block-sync, consensus, dispatcher, chain.
C3_StopIsReverseOfStart ==
    (srvRet.op = "Stop" /\ srvRet.err = NoErr)
        => /\ StagesOf(srvLog) = Reverse(StartOrder)
           /\ StagesOf(srvLog) =
                <<"explorer", "p2p", "blocksync", "consensus", "dispatcher", "chain">>

\* C4: Start invokes the stages in the order chain, dispatcher, consensus,
\* block-sync, network transport, explorer: what it invoked is a prefix of
\* that order (so each stage at most once), every invocation but the last
\* returned without error, and a Start that returned nil invoked all six.
C4_StartOrder ==
    srvRet.op = "Start" =>
        LET claimed == <<"chain", "dispatcher", "consensus", "blocksync",
                         "p2p", "explorer">>
        IN  /\ Len(srvLog) >= 1 /\ Len(srvLog) <= 6
            /\ StagesOf(srvLog) = SubSeq(claimed, 1, Len(srvLog))
            /\ \A i \in 1..(Len(srvLog) - 1) : srvLog[i].err = ErrNone
            /\ srvRet.err = NoErr => Len(srvLog) = 6

C4_Witness ==
    /\ srvRet.op = "Start"
    /\ srvRet.err = NoErr
    /\ Len(srvLog) = 6
    /\ running = Stages

\* C5: in Start and in Stop the first stage that fails is the last one
\* invoked; the call returns that stage's error wrapped with the message of
\* that stage and of no other stage; and the call returns nil exactly when
\* all six stages were invoked and none failed.
C5_FirstFailureAborts ==
    srvRet.op \in {"Start", "Stop"} =>
        LET bad == {i \in 1..Len(srvLog) : srvLog[i].err # ErrNone}
            msgOf(st) == IF srvRet.op = "Start" THEN StartMsg(st) ELSE StopMsg(st)
        IN  /\ bad \subseteq {Len(srvLog)}
            /\ bad # {} =>
                 /\ srvRet.err.cause = srvLog[Len(srvLog)].err
                 /\ srvRet.err.msg = msgOf(srvLog[Len(srvLog)].stage)
                 /\ \A st \in Stages \ {srvLog[Len(srvLog)].stage} :
                        /\ StartMsg(st) # srvRet.err.msg
                        /\ StopMsg(st) # srvRet.err.msg
            /\ (srvRet.err = NoErr) <=>
                 (bad = {} /\ {srvLog[i].stage : i \in 1..Len(srvLog)} = Stages)

C5_Witness ==
    /\ srvRet.op = "Stop"
    /\ Len(srvLog) = 3
    /\ srvLog[3].err = "e2"
    /\ srvRet.err = Wrap("e2", "error when stopping consensus")
    /\ running = {"chain", "dispatcher", "consensus", "blocksync"}

SameSlot(a, b) == a.sender = b.sender /\ a.nonce = b.nonce

\* C6: HandleAction hands a Transfer, Vote or Execution message to exactly
\* one admission, once: AddTsf, AddVote or AddExecution by its kind, with the
\* action of the message; it returns that admission's error unchanged; and a
\* rejected message leaves the pool and the committed state as they were.
C6_ActionRouting ==
    /\ [](  (/\ hRet.op = "HandleAction"
             /\ hRet.msg.kind \in {"Transfer", "Vote", "Execution"})
              => /\ Len(hRet.calls) = 1
                 /\ hRet.calls[1].op =
                      (CASE hRet.msg.kind = "Transfer" -> "AddTsf"
                         [] hRet.msg.kind = "Vote" -> "AddVote"
                         [] hRet.msg.kind = "Execution" -> "AddExecution")
                 /\ hRet.calls[1].act = hRet.msg
                 /\ hRet.err = hRet.calls[1].err)
    /\ [][(hRet'.op = "HandleAction" /\ hRet'.err # ErrNone)
             => (pending' = pending /\ chain' = chain)]_vars

C6_Witness ==
    /\ hRet.op = "HandleAction"
    /\ hRet.msg = Action("B", 2, "Vote", 0)
    /\ hRet.calls = <<[op |-> "AddVote", act |-> Action("B", 2, "Vote", 0),
                       err |-> ErrDuplicateNonce]>>
    /\ hRet.err = ErrDuplicateNonce
    /\ Action("B", 2, "Execution", 1) \in pending

C8_OnePerSenderAndNonce ==
    /\ [](\A a, b \in pending : SameSlot(a, b) => a = b)
    /\ [][\A w \in Workers :
            (inflight[w].busy /\ ~inflight'[w].busy)
              => /\ pending \subseteq pending'
                 /\ (\E a \in pending : SameSlot(a, inflight[w].act))
                       => (/\ inflight[w].err = ErrDuplicateNonce
                           /\ pending' = pending)]_vars

C8_Witness ==
    /\ Action("A", 1, "Transfer", 1) \in pending
    /\ inflight[1] = [busy |-> TRUE, act |-> Action("A", 1, "Transfer", 2),
                      err |-> ErrDuplicateNonce]
    /\ inflight[2].busy
    /\ inflight[2].act.sender = "B"
    /\ inflight[2].err = ErrNone

Stale(a) == a.nonce < chain[a.sender].nonce
Affordable(a) ==
    chain[a.sender].balance - SumAmounts(Lower(pending, a)) >= a.amount

\* C9: right after evict, no pending action has a nonce below its sender's
\* on-chain nonce and each is covered by its sender's committed balance less
\* the amounts of that sender's lower-nonce pending actions; evict returns no
\* error; and every action it dropped is stale or not covered in this sense
\* (no entry is dropped because of another sender).
C9_EvictLeavesValidQueue ==
    hRet.op = "evict" =>
        /\ \A a \in pending : ~Stale(a) /\ Affordable(a)
        /\ \A a \in hRet.dropped : a \notin pending /\ (Stale(a) \/ ~Affordable(a))
        /\ hRet.err = ErrNone

C9_Witness ==
    /\ hRet.op = "evict"
    /\ chain["A"] = [nonce |-> 1, balance |-> 1]
    /\ hRet.dropped = {Action("A", 2, "Transfer", 1)}
    /\ Of(pending, "A") = {Action("A", 1, "Execution", 1)}
    /\ Of(pending, "B") = {Action("B", 1, "Transfer", 2), Action("B", 2, "Vote", 0)}

\* C10: right after clone(), the copy's Nonce, Balance, Root, CodeHash,
\* IsCandidate, VotingWeight and Votee equal the original's, its Voters is
\* empty, and the original is as it was before the call.
C10_CloneEqualsOriginal ==
    ret.op = "clone" =>
        LET o == ValueOf("orig")
            c == ValueOf("cpy")
        IN  /\ c.Nonce = o.Nonce
            /\ c.Balance = o.Balance
            /\ c.Root = o.Root
            /\ c.CodeHash = o.CodeHash
            /\ c.IsCandidate = o.IsCandidate
            /\ c.VotingWeight = o.VotingWeight
            /\ c.Votee = o.Votee
            /\ c.Voters.entries = {}
            /\ o = ret.pre

C10_Witness ==
    /\ ret.op = "clone"
    /\ ValueOf("orig").Voters.entries # {}
    /\ ValueOf("orig").CodeHash.isNil
    /\ ValueOf("orig").Balance = 2
    /\ ValueOf("cpy").Balance = 2
    /\ ValueOf("cpy").Voters.entries = {}

\* C11: once clone() ran, a mutation of the clone (AddBalance, SubBalance,
\* a write through VotingWeight, a write to the bytes of CodeHash) leaves
\* every field of the original as it was, and a mutation of the original
\* leaves every field of the clone as it was.
C11_CloneSharesNoStorage ==
    [][("cpy" \in DOMAIN accounts /\ ret'.op \in Mutators)
         => \A n \in DOMAIN accounts \ {ret'.target} :
              Val(heap', arrs', accounts'[n]) = Val(heap, arrs, accounts[n])]_vars

C11_Witness ==
    /\ "cpy" \in DOMAIN accounts
    /\ ret.op = "WriteCodeHash" /\ ret.target = "cpy"
    /\ ValueOf("cpy").CodeHash.bytes = <<9>>
    /\ ValueOf("orig").CodeHash.bytes = <<7>>
    /\ ValueOf("cpy").Balance = 2 /\ ValueOf("orig").Balance = 1
    /\ ValueOf("cpy").VotingWeight # ValueOf("orig").VotingWeight

\* C12: on a balance b >= 0, SubBalance(a) with 0 <= a <= b followed by
\* AddBalance(a) both return nil and leave the balance exactly b.
C12_DebitThenCreditRestores ==
    (/\ prevRet.op = "SubBalance" /\ ret.op = "AddBalance"
     /\ prevRet.target = ret.target /\ prevRet.amount = ret.amount
     /\ prevRet.pre.Balance >= 0
     /\ prevRet.amount >= 0 /\ prevRet.amount <= prevRet.pre.Balance)
        => /\ prevRet.err = ErrNone
           /\ ret.err = ErrNone
           /\ BalanceOf(ret.target) = prevRet.pre.Balance

C12_Witness ==
    /\ prevRet.op = "SubBalance" /\ prevRet.amount = MaxAmount
    /\ prevRet.pre.Balance = MaxAmount /\ prevRet.err = ErrNone
    /\ ret.op = "AddBalance" /\ ret.amount = MaxAmount
    /\ ret.pre.Balance = 0 /\ ret.err = ErrNone
    /\ BalanceOf("orig") = MaxAmount

RoundTrip == ret.op = "bytesToState" /\ prevRet.op = "stateToBytes"
SameButVoters(v, w) ==
    /\ v.Nonce = w.Nonce /\ v.Balance = w.Balance /\ v.Root = w.Root
    /\ v.CodeHash.bytes = w.CodeHash.bytes /\ v.IsCandidate = w.IsCandidate
    /\ v.VotingWeight = w.VotingWeight /\ v.Votee = w.Votee

Route(handler) ==
    CASE handler = "HandleBlock" -> <<"bs", "ProcessBlock">>
      [] handler = "HandleBlockSync" -> <<"bs", "ProcessBlockSync">>
      [] handler = "HandleSyncRequest" -> <<"bs", "ProcessSyncRequest">>
      [] handler = "HandleViewChange" -> <<"cs", "HandleViewChange">>
      [] handler = "HandleBlockPropose" -> <<"cs", "HandleBlockPropose">>

\* C14: every handler other than HandleAction makes exactly one call, on
\* the block syncer or the consensus component and never on the action
\* pool, passes its own arguments on as they are, and returns what the call
\* returned.
C14_HandlersForward ==
    fwd.handler # "none"
        => /\ Len(fwd.calls) = 1
           /\ <<fwd.calls[1].target, fwd.calls[1].op>> = Route(fwd.handler)
           /\ fwd.calls[1].target # "ap"
           /\ fwd.calls[1].args = fwd.args
           /\ fwd.err = fwd.calls[1].err

C14_Witness ==
    /\ fwd.handler = "HandleViewChange"
    /\ fwd.args = <<"m2">>
    /\ fwd.err = "e1"
    /\ fwd.calls = <<[target |-> "cs", op |-> "HandleViewChange",
                      args |-> <<"m2">>, err |-> "e1"]>>
    /\ Len(arrivals) = MaxArrivals

OpsOf(steps) == [i \in 1..Len(steps) |-> steps[i].op]
FallbackTaken == boot.result # "none" /\ ~boot.in.init1 /\ boot.in.fallback

\* C15: when the first chain initialization fails and the fallback flag is
\* set, NewServer renames the chain storage and then the trie storage before
\* it initializes a chain again; when a rename fails it returns no server
\* and does nothing after the failed rename: no second rename, no second
\* initialization, no other component.
C15_FallbackRenamesOrAborts ==
    FallbackTaken
        => /\ Len(boot.steps) >= 2
           /\ boot.steps[1] = Step("NewBlockchain", "nil", 0)
           /\ boot.steps[2] = Step("Rename", "chain", 0)
           /\ boot.in.renChain # ErrNone
                => /\ boot.result = "nil"
                   /\ OpsOf(boot.steps) = <<"NewBlockchain", "Rename">>
           /\ (boot.in.renChain = ErrNone /\ boot.in.renTrie # ErrNone)
                => /\ boot.result = "nil"
                   /\ boot.steps[3] = Step("Rename", "trie", 0)
                   /\ OpsOf(boot.steps) = <<"NewBlockchain", "Rename", "Rename">>
           /\ (boot.in.renChain = ErrNone /\ boot.in.renTrie = ErrNone)
                => /\ Len(boot.steps) >= 4
                   /\ boot.steps[3] = Step("Rename", "trie", 0)
                   /\ boot.steps[4].op = "NewBlockchain"
                   /\ \A i \in 5..Len(boot.steps) :
                          boot.steps[i].op \notin {"NewBlockchain", "Rename"}

C15_Witness ==
    /\ FallbackTaken
    /\ boot.in.renChain = ErrNone /\ boot.in.renTrie = "e1"
    /\ boot.in.init2 /\ boot.in.broken = "none"
    /\ boot.result = "nil"
    /\ Len(boot.steps) = 3

StepsWith(op) == {i \in 1..Len(boot.steps) : boot.steps[i].op = op}

\* C16: the dispatcher never holds two subscribers for one chain id; an
\* AddSubscriber for an id that has a subscriber fails with
\* DuplicateSubscriber and leaves the table as it was; and a server that was
\* constructed registered exactly one subscriber, the bcService for its own
\* chain's id, before it attached the dispatcher to the network overlay.
C16_OneSubscriberPerChain ==
    /\ \A x, y \in subs : x.id = y.id => x = y
    /\ (subRet.op = "AddSubscriber" /\ \E x \in subRet.pre : x.id = subRet.id)
         => (subRet.err = ErrDuplicateSubscriber /\ subs = subRet.pre)
    /\ boot.result = "server"
         => /\ Cardinality(StepsWith("AddSubscriber")) = 1
            /\ Cardinality(StepsWith("AttachDispatcher")) = 1
            /\ \A i \in StepsWith("AddSubscriber") :
                   /\ boot.steps[i].id = boot.chain.id
                   /\ \A j \in StepsWith("AttachDispatcher") : i < j
            /\ [id |-> boot.chain.id, handler |-> "bcService"] \in subs

C16_Witness ==
    /\ boot.result = "server"
    /\ boot.chain = Chain("fresh", MaxChainID)
    /\ subRet.op = "AddSubscriber" /\ subRet.id = boot.chain.id
    /\ subRet.handler = "other" /\ subRet.err = ErrDuplicateSubscriber
    /\ Cardinality(subs) = MaxChainID

\* C17: HandleAction returns nil only when it made exactly one admission
\* call and that call succeeded; a message without a Transfer, Vote or
\* Execution payload is not answered with nil.
C17_NilMeansAdmitted ==
    (hRet.op = "HandleAction" /\ hRet.err = ErrNone)
        => /\ Len(hRet.calls) = 1
           /\ hRet.calls[1].err = ErrNone
           /\ hRet.msg.kind \in {"Transfer", "Vote", "Execution"}

\* C18: a single AddBalance or SubBalance call, whatever the sign of its
\* amount, does not take a balance that is >= 0 below 0, SubBalance does not
\* raise the balance and AddBalance does not lower it.
C18_MutatorsEnforceSign ==
    (ret.op \in {"AddBalance", "SubBalance"} /\ ret.pre.Balance >= 0)
        => /\ BalanceOf(ret.target) >= 0
           /\ ret.op = "SubBalance" => BalanceOf(ret.target) <= ret.pre.Balance
           /\ ret.op = "AddBalance" => BalanceOf(ret.target) >= ret.pre.Balance

C20_NoMissingChainUsed ==
    boot.result # "none"
        => /\ boot.result \in {"nil", "server", "fatal"}
           /\ boot.result = "server" => boot.chain.kind # "nil"
           /\ \A i \in StepsWith("ChainID") \cup StepsWith("AddSubscriber") :
                  boot.steps[i].arg # "nil"

====
